---------------------------- MODULE Spec2Model ----------------------------
(***************************************************************************)
(* A model of irise/interpolate.py: to_level, cross_section and remap_3d.  *)
(*                                                                         *)
(* Every function of the module is a pure, stateless call.  The state is   *)
(* one call: which function (op), its arguments (args) and what the call   *)
(* did (out: pending before the call; after it, whether it returned or     *)
(* raised, the coordinate lookups it made on the cube, the kernel          *)
(* invocations it made, and the cube it returned).  The initial states     *)
(* draw the arguments; one action per function, which is the whole call.   *)
(*                                                                         *)
(* Arrays are records [shape, at]: shape is the tuple of dimension         *)
(* lengths, at maps every index tuple (1-based) to the element.            *)
(* Coordinate values are powers of two, so that the logarithm the kernel   *)
(* takes in LOGARITHMIC mode is exact (Log2); interpolated values are      *)
(* reduced fractions [n, d].  Names are sequences of characters, so that   *)
(* 'pressure' in coord_name is a real substring test.                      *)
(***************************************************************************)
EXTENDS Integers, Sequences, FiniteSets, TLC

VARIABLES op, args, out

vars == <<op, args, out>>

\* ------------------------------------------------------------------ bounds

\* Largest number of grid points along y and along x.
MaxN == 2
\* Largest number of requested output levels.
MaxM == 2
\* Largest number of points along a cross-section.
MaxPoints == 3
\* Largest horizontal coordinate value of a cross-section end point.
MaxXY == 2

\* ------------------------------------------------------------------ arrays

Idx(shape) ==
    CASE Len(shape) = 0 -> {<<>>}
      [] Len(shape) = 1 -> {<<i>> : i \in 1..shape[1]}
      [] Len(shape) = 2 -> {<<i, j>> : i \in 1..shape[1], j \in 1..shape[2]}
      [] Len(shape) = 3 ->
            {<<i, j, k>> : i \in 1..shape[1], j \in 1..shape[2], k \in 1..shape[3]}
      [] OTHER ->
            {<<i, j, k, l>> : i \in 1..shape[1], j \in 1..shape[2],
                              k \in 1..shape[3], l \in 1..shape[4]}

\* An array of the given shape holding v everywhere.
Full(shape, v) == [shape |-> shape, at |-> [i \in Idx(shape) |-> v]]

\* np.ones(shape)
Ones(shape) == Full(shape, 1)

\* A Python list as a rank-1 array.
ListArray(s) == [shape |-> <<Len(s)>>, at |-> [i \in Idx(<<Len(s)>>) |-> s[i[1]]]]

\* np.ndim(a)
NDim(a) == Len(a.shape)

\* list * ndarray for a rank-1 left operand and a rank-3 right operand:
\* numpy aligns the list with the LAST axis of the array.
Multiply(v, a) ==
    [shape |-> a.shape,
     at |-> [i \in Idx(a.shape) |-> v.at[<<i[3]>>] * a.at[i]]]

\* ndarray.transpose() with no argument reverses the order of the axes.
Transpose(a) ==
    LET s == <<a.shape[3], a.shape[2], a.shape[1]>>
    IN [shape |-> s, at |-> [i \in Idx(s) |-> a.at[<<i[3], i[2], i[1]>>]]]

\* ------------------------------------------------------------------- names

altitude == <<"a", "l", "t", "i", "t", "u", "d", "e">>
air_pressure == <<"a", "i", "r", "_", "p", "r", "e", "s", "s", "u", "r", "e">>
Pressure == <<"P", "r", "e", "s", "s", "u", "r", "e">>
theta == <<"t", "h", "e", "t", "a">>
pressure == <<"p", "r", "e", "s", "s", "u", "r", "e">>

\* The coordinate names a call may ask for; theta is on no cube.
RequestNames == {altitude, air_pressure, Pressure, theta}

\* sub in s, for Python strings.
Contains(sub, s) ==
    \E i \in 1..(Len(s) - Len(sub) + 1) : SubSeq(s, i, i + Len(sub) - 1) = sub

\* ------------------------------------------------------------------- cubes

\* Input columns of vertical coordinate values (Column of the data model).
Increasing == <<2, 4, 8>>
Decreasing == <<8, 4, 2>>
Degenerate == <<4, 4, 4>>
ColumnKinds == {Increasing, Decreasing, Degenerate}

\* The coordinate values a target may ask for: the levels of the columns and
\* one value below and one above all of them.
Levels == {1, 2, 4, 8, 16}

NLev == Len(Increasing)

\* data[l, y, x]: every element differs, so that a mixed-up index shows.
CubeData(ny, nx) ==
    [shape |-> <<NLev, ny, nx>>,
     at |-> [i \in Idx(<<NLev, ny, nx>>) |-> 100 * i[1] + 10 * i[2] + i[3]]]

\* A 3D vertical coordinate: column `special` at grid point (1, 1) and column
\* `bulk` at every other grid point.
Points3D(ny, nx, special, bulk) ==
    [shape |-> <<NLev, ny, nx>>,
     at |-> [i \in Idx(<<NLev, ny, nx>>) |->
                IF i[2] = 1 /\ i[3] = 1 THEN special[i[1]] ELSE bulk[i[1]]]]

\* A cube (z, y, x) whose vertical coordinates (altitude, air_pressure,
\* Pressure) share one array of points, 1D (L,) or 3D (L, Y, X).
MakeCube(ny, nx, points) ==
    [shape |-> <<NLev, ny, nx>>,
     data |-> CubeData(ny, nx),
     names |-> {altitude, air_pressure, Pressure},
     points |-> points,
     aux_coords |-> {[name |-> "time", npoints |-> 1],
                     [name |-> "surface_altitude", npoints |-> ny * nx]}]

Cubes ==
    {MakeCube(ny, nx, Points3D(ny, nx, s, b)) :
        ny \in 1..MaxN, nx \in 1..MaxN, s \in ColumnKinds, b \in {Increasing, Decreasing}}
    \cup
    {MakeCube(ny, nx, ListArray(c)) : ny \in 1..MaxN, nx \in 1..MaxN, c \in ColumnKinds}

\* ----------------------------------------------------------------- targets

RECURSIVE SeqsUpTo(_, _)
\* The non-empty sequences over S of length at most n.
SeqsUpTo(S, n) ==
    IF n = 0 THEN {}
    ELSE {<<v>> : v \in S}
         \cup {Append(s, v) : s \in SeqsUpTo(S, n - 1), v \in S}

\* A flat list of levels.
ListTargets == {ListArray(s) : s \in SeqsUpTo(Levels, MaxM)}

Shift(v) == IF v = 16 THEN 1 ELSE 2 * v

\* A 3D array of targets (M, ty, tx): s[m] at every grid point but (1, 1),
\* which asks for another level.
Target3D(s, ty, tx) ==
    [shape |-> <<Len(s), ty, tx>>,
     at |-> [i \in Idx(<<Len(s), ty, tx>>) |->
                IF i[2] = 1 /\ i[3] = 1 THEN Shift(s[i[1]]) ELSE s[i[1]]]]

GridTargets ==
    {Target3D(s, ty, tx) : s \in SeqsUpTo({1, 4}, MaxM), ty \in 1..MaxN, tx \in 1..MaxN}

\* Targets of a rank that is neither 1 nor 3: a scalar, a 2D and a 4D array.
OtherRankTargets ==
    {Full(<<>>, v) : v \in Levels}
    \cup {Full(<<1, 2>>, 4), Full(<<1, 1, 1, 2>>, 4)}

Targets == ListTargets \cup GridTargets \cup OtherRankTargets

\* The keyword arguments of a call, in the order given: none, one, or two.
Kwargs ==
    {<<>>}
    \cup {<<[name |-> n, value |-> t]>> : n \in RequestNames, t \in Targets}
    \cup {<<[name |-> n, value |-> ListArray(<<v>>)],
           [name |-> altitude, value |-> ListArray(<<4>>)]>> :
            n \in RequestNames, v \in Levels}

\* The orders a call may ask for; 0 (the default) and 1 are linear.
Orders == 0..2
LinearOrders == {0, 1}


\* --------------------------------------------------------------- fractions

Abs(n) == IF n < 0 THEN -n ELSE n

RECURSIVE GCD(_, _)
GCD(a, b) == IF b = 0 THEN a ELSE GCD(b, a % b)

\* The fraction n / d (d # 0), reduced, with a positive denominator.
Frac(n, d) ==
    LET g == GCD(Abs(n), Abs(d))
        s == IF d < 0 THEN -1 ELSE 1
    IN [n |-> (s * n) \div g, d |-> (s * d) \div g]

Whole(n) == [n |-> n, d |-> 1]

RECURSIVE Log2(_)
\* The logarithm of a power of two.  The kernel takes natural logarithms; in
\* the interpolation fraction the factor ln 2 cancels.
Log2(v) == IF v <= 1 THEN 0 ELSE 1 + Log2(v \div 2)

\* ------------------------------------------- the kernel, finterpolate.to_level

\* coord_in[:, y, x]: a coordinate given as (L,) is the same column at every
\* grid point.
Column(coord_in, y, x) ==
    [k \in 1..coord_in.shape[1] |->
        IF NDim(coord_in) = 1 THEN coord_in.at[<<k>>] ELSE coord_in.at[<<k, y, x>>]]

\* v lies between a and b, in an increasing or a decreasing column.
Between(v, a, b) == (a <= v /\ v <= b) \/ (b <= v /\ v <= a)

\* The first k such that v lies between col[k] and col[k+1]; 0 when there is none.
Bracket(col, v) ==
    LET ks == {k \in 1..(Len(col) - 1) : Between(v, col[k], col[k + 1])}
    IN IF ks = {} THEN 0 ELSE CHOOSE k \in ks : \A j \in ks : k <= j

\* g of the interpolation fraction: the identity in LINEAR mode (flag 0), the
\* logarithm in LOGARITHMIC mode (flag 1).
G(flag, c) == IF flag = 1 THEN Log2(c) ELSE c

\* One output point: [mask, value].  No bracket, or a bracket of zero width,
\* is masked, and its value is a placeholder.
InterpolatePoint(col, dcol, v, flag) ==
    LET k == Bracket(col, v)
    IN IF k = 0 THEN [mask |-> TRUE, value |-> Whole(0)]
       ELSE LET den == G(flag, col[k + 1]) - G(flag, col[k])
                num == G(flag, v) - G(flag, col[k])
            IN IF den = 0 THEN [mask |-> TRUE, value |-> Whole(0)]
               ELSE [mask |-> FALSE,
                     value |-> Frac(dcol[k] * den + num * (dcol[k + 1] - dcol[k]), den)]

\* The arrays the kernel can work on: data (L, Y, X), coord_in (L,) or
\* (L, Y, X), coord_out (M, Y, X).
KernelShapesAgree(a) ==
    /\ NDim(a.data) = 3
    /\ NDim(a.coord_out) = 3
    /\ a.coord_out.shape[2] = a.data.shape[2]
    /\ a.coord_out.shape[3] = a.data.shape[3]
    /\ \/ a.coord_in.shape = <<a.data.shape[1]>>
       \/ a.coord_in.shape = a.data.shape

\* finterpolate.to_level(data, coord_in, coord_out, interp_flag, order):
\* [error, output, mask].  An unsupported order and arrays that do not fit
\* are refused on entry, before anything is computed.
FToLevel(a) ==
    IF a.order \notin LinearOrders
    THEN [error |-> "ConfigurationError", output |-> <<>>, mask |-> <<>>]
    ELSE IF ~KernelShapesAgree(a)
    THEN [error |-> "ShapeMismatchError", output |-> <<>>, mask |-> <<>>]
    ELSE LET pt(i) == InterpolatePoint(Column(a.coord_in, i[2], i[3]),
                                       Column(a.data, i[2], i[3]),
                                       a.coord_out.at[i], a.interp_flag)
         IN [error |-> "",
             output |-> [shape |-> a.coord_out.shape,
                         at |-> [i \in Idx(a.coord_out.shape) |-> pt(i).value]],
             mask |-> [shape |-> a.coord_out.shape,
                       at |-> [i \in Idx(a.coord_out.shape) |-> pt(i).mask]]]

\* ---------------------------------------------------------------- to_level

\* Mutant: the test lets two targets through.
TooManyTargetsOffByOne(kwargs) == Len(kwargs) > 2

\* len(kwargs) > 1
TooManyTargets(kwargs) == Len(kwargs) > 1

\* cube.coord(coord_name) finds a coordinate.
HasCoord(cube, coord_name) == coord_name \in cube.names

\* cube.coord(coord_name)
CubeCoord(cube, coord_name) == [long_name |-> coord_name, points |-> cube.points]

\* Mutant: a 2D target is let through as well.
RankSupportedLoose(dims) == dims \in 1..3

\* dims == 1 or dims == 3: the ranks to_level goes on with.
RankSupported(dims) == dims = 1 \/ dims = 3

\* Mutant: np.ones([ny, nx, len(coord_out)]), the grid axes in the order of
\* the cube's shape, which the transposition then reverses.
BroadcastSwapped(coord_out, shape) ==
    LET ny == shape[2]
        nx == shape[3]
    IN Transpose(Multiply(coord_out, Ones(<<ny, nx, coord_out.shape[1]>>)))

\* coord_out * np.ones([nx, ny, len(coord_out)]), transposed.
Broadcast(coord_out, shape) ==
    LET ny == shape[2]
        nx == shape[3]
    IN Transpose(Multiply(coord_out, Ones(<<nx, ny, coord_out.shape[1]>>)))

\* Mutant: coord_name == 'pressure' instead of 'pressure' in coord_name.
InterpFlagEquals(coord_name) == IF coord_name = pressure THEN 1 ELSE 0

\* 'pressure' in coord_name selects flag 1, anything else flag 0.
InterpFlag(coord_name) == IF Contains(pressure, coord_name) THEN 1 ELSE 0

\* Mutant: the order is not handed on; the kernel sees the default.
KernelArgsDefaultOrder(data, coord_in, coord_out_3d, interp_flag, order) ==
    [data |-> data, coord_in |-> coord_in, coord_out |-> coord_out_3d,
     interp_flag |-> interp_flag, order |-> 0]

\* Mutant: the first two arguments are given in the wrong order.
KernelArgsSwapped(data, coord_in, coord_out_3d, interp_flag, order) ==
    [data |-> coord_in, coord_in |-> data, coord_out |-> coord_out_3d,
     interp_flag |-> interp_flag, order |-> order]

\* The arguments of the kernel call, in the order of the call.
KernelArgs(data, coord_in, coord_out_3d, interp_flag, order) ==
    [data |-> data, coord_in |-> coord_in, coord_out |-> coord_out_3d,
     interp_flag |-> interp_flag, order |-> order]

\* Mutant: np.ma.masked_where(~mask, newdata).
MaskedWhereInverted(mask, newdata) ==
    [shape |-> newdata.shape, data |-> newdata.at,
     mask |-> [i \in DOMAIN mask.at |-> ~mask.at[i]]]

\* Mutant: the kernel's mask is not applied.
MaskedWhereDropped(mask, newdata) ==
    [shape |-> newdata.shape, data |-> newdata.at,
     mask |-> [i \in DOMAIN mask.at |-> FALSE]]

\* np.ma.masked_where(mask, newdata)
MaskedWhere(mask, newdata) ==
    [shape |-> newdata.shape, data |-> newdata.at, mask |-> mask.at]

\* A DimCoord has one dimension and strictly monotonic points.
StrictlyMonotonic(a) ==
    /\ NDim(a) = 1
    /\ \/ \A i \in 1..(a.shape[1] - 1) : a.at[<<i>>] < a.at[<<i + 1>>]
       \/ \A i \in 1..(a.shape[1] - 1) : a.at[<<i>>] > a.at[<<i + 1>>]

\* add_scalar_coords(cube, newcube): the single-valued aux coords of the cube.
ScalarCoords(cube) == {c \in cube.aux_coords : c.npoints = 1}

\* The cube to_level builds from the kernel's output.
NewCube(cube, coord_name, coord_out, newdata, mask) ==
    [data |-> MaskedWhere(mask, newdata),
     y |-> cube.shape[2],
     x |-> cube.shape[3],
     newcoord |-> [long_name |-> coord_name, points |-> coord_out],
     level_dim |-> IF StrictlyMonotonic(coord_out) THEN "promoted" ELSE "level_number",
     aux_coords |-> ScalarCoords(cube)]

NoCube == [none |-> TRUE]

\* What a call did: status is "returned" or "raised"; lookups counts the
\* coordinate lookups made on the cube; kernel lists the arguments of the
\* kernel invocations and kresult what each gave back.
Raised(error, lookups, kernel, kresult) ==
    [status |-> "raised", error |-> error, lookups |-> lookups,
     kernel |-> kernel, kresult |-> kresult, cube |-> NoCube]

Returned(cube, lookups, kernel, kresult) ==
    [status |-> "returned", error |-> "", lookups |-> lookups,
     kernel |-> kernel, kresult |-> kresult, cube |-> cube]

\* to_level(cube, order, **kwargs), from its first line to its return.
ToLevelRun(cube, order, kwargs) ==
    IF TooManyTargets(kwargs)
    THEN Raised("Can only specify a single vertical co-ordinate", 0, <<>>, <<>>)
    ELSE IF Len(kwargs) = 0
    THEN Raised("IndexError", 0, <<>>, <<>>)
    ELSE
      LET coord_name == kwargs[1].name
          coord_out == kwargs[1].value
      IN IF ~HasCoord(cube, coord_name)
         THEN Raised("CoordinateNotFoundError", 1, <<>>, <<>>)
         ELSE IF ~RankSupported(NDim(coord_out))
         THEN Raised("Coordinate must be 3d or a list of levels", 1, <<>>, <<>>)
         ELSE
           LET coord_in == CubeCoord(cube, coord_name)
               coord_out_3d == IF NDim(coord_out) = 1
                               THEN Broadcast(coord_out, cube.shape)
                               ELSE coord_out
               interp_flag == InterpFlag(coord_name)
               a == KernelArgs(cube.data, coord_in.points, coord_out_3d,
                               interp_flag, order)
               k == FToLevel(a)
           IN IF k.error # ""
              THEN Raised(k.error, 1, <<a>>, <<k>>)
              ELSE Returned(NewCube(cube, coord_name, coord_out, k.output, k.mask),
                            1, <<a>>, <<k>>)

\* ------------------------------------------------------------------ actions

\* A call that has not been made yet.
Pending == [status |-> "pending"]

\* The calls of to_level.
InitToLevel ==
    /\ op = "to_level"
    /\ args \in [cube : Cubes, order : Orders, kwargs : Kwargs]
    /\ out = Pending

\* A call of to_level.
ToLevel ==
    /\ op = "to_level"
    /\ out = Pending
    /\ out' = ToLevelRun(args.cube, args.order, args.kwargs)
    /\ UNCHANGED <<op, args>>

SpecToLevel == InitToLevel /\ [][ToLevel]_vars

\* -------------------------------------------------- the claims on to_level

\* The call of function f has been made.
Called(f) == op = f /\ out # Pending

\* The call is a call of to_level that names one target coordinate, which the
\* cube has: it gets as far as the rank check.
OneTargetFound ==
    /\ Called("to_level")
    /\ Len(args.kwargs) = 1
    /\ HasCoord(args.cube, args.kwargs[1].name)

\* The array of targets the call asked for.
Asked == args.kwargs[1].value

\* The target level the call asked for at output index i = <<m, y, x>>.
AskedAt(i) == IF NDim(Asked) = 1 THEN Asked.at[<<i[1]>>] ELSE Asked.at[i]

\* The input column of the call at grid point (y, x).
ColumnAt(y, x) == Column(args.cube.points, y, x)

SeqMin(col) == CHOOSE v \in {col[k] : k \in DOMAIN col} : \A k \in DOMAIN col : v <= col[k]
SeqMax(col) == CHOOSE v \in {col[k] : k \in DOMAIN col} : \A k \in DOMAIN col : v >= col[k]

StrictColumn(col) ==
    \/ \A k \in 1..(Len(col) - 1) : col[k] < col[k + 1]
    \/ \A k \in 1..(Len(col) - 1) : col[k] > col[k + 1]

\* A rank-3 target whose (Y, X) is the cube's.
MatchesGrid(t, cube) ==
    /\ NDim(t) = 3
    /\ t.shape[2] = cube.shape[2]
    /\ t.shape[3] = cube.shape[3]

\* The call gets as far as the kernel call and the kernel has nothing to
\* refuse: the only things left to go wrong are per-point.
WellFormed ==
    /\ OneTargetFound
    /\ NDim(Asked) = 1 \/ MatchesGrid(Asked, args.cube)
    /\ args.order \in LinearOrders

\* The mask the kernel returned in the call (ValidityMask).
ValidityMask == out.kresult[1].mask

\* The output the kernel returned in the call (OutputField).
OutputField == out.kresult[1].output

\* The output indices of a call that returned.
OutIdx == Idx(out.cube.data.shape)

\* C1 as stated: a call whose order is not linear ends in a configuration
\* error raised before the kernel is invoked and before a cube is built.
C1_RaisedBeforeKernel ==
    (OneTargetFound /\ NDim(Asked) \in {1, 3} /\ args.order \notin LinearOrders)
        => /\ out.status = "raised"
           /\ out.error = "ConfigurationError"
           /\ out.kernel = <<>>
           /\ out.cube = NoCube

\* C1 amended: a call whose order is not linear returns nothing and builds no
\* cube; to_level does not check the order itself: when the call gets as far
\* as the interpolation, the kernel is invoked once, with the order unchanged,
\* and the configuration error is the kernel's.
C1_RaisedByKernel ==
    (Called("to_level") /\ args.order \notin LinearOrders)
        => /\ out.status = "raised"
           /\ out.cube = NoCube
           /\ (OneTargetFound /\ NDim(Asked) \in {1, 3})
                => /\ out.error = "ConfigurationError"
                   /\ Len(out.kernel) = 1
                   /\ out.kernel[1].order = args.order

C1_Witness ==
    /\ OneTargetFound
    /\ NDim(Asked) = 1
    /\ args.order = 2
    /\ out.error = "ConfigurationError"
    /\ Len(out.kernel) = 1

\* C2: a target strictly below the minimum or strictly above the maximum of
\* its input column is masked, by the kernel and in the returned data; the
\* call does not fail for it; and whether a point is masked depends on its
\* own column only.
C2_OutOfRangeMasked ==
    /\ WellFormed => out.status = "returned"
    /\ (op = "to_level" /\ out.status = "returned")
        => LET kmask == ValidityMask
           IN \A i \in OutIdx :
                LET col == ColumnAt(i[2], i[3])
                    outside == AskedAt(i) < SeqMin(col) \/ AskedAt(i) > SeqMax(col)
                IN /\ outside => (kmask.at[i] /\ out.cube.data.mask[i])
                   /\ out.cube.data.mask[i] = (outside \/ SeqMin(col) = SeqMax(col))

C2_Witness ==
    /\ op = "to_level"
    /\ out.status = "returned"
    /\ args.cube.shape[3] = 2
    /\ NDim(args.cube.points) = 3
    /\ ColumnAt(1, 1) = Increasing
    /\ ColumnAt(1, 2) = Decreasing
    /\ AskedAt(<<1, 1, 1>>) = 2
    /\ AskedAt(<<1, 1, 2>>) = 1
    /\ ~out.cube.data.mask[<<1, 1, 1>>]
    /\ out.cube.data.mask[<<1, 1, 2>>]

\* C3: a target equal to a level of a strictly increasing or decreasing
\* column returns the data of that level, unmasked, in either mode.
C3_ExactLevel ==
    (op = "to_level" /\ out.status = "returned")
        => LET kmask == ValidityMask
               koutput == OutputField
           IN \A i \in OutIdx :
                LET col == ColumnAt(i[2], i[3])
                IN \A k \in DOMAIN col :
                    (StrictColumn(col) /\ col[k] = AskedAt(i))
                        => /\ out.cube.data.data[i] = Whole(args.cube.data.at[<<k, i[2], i[3]>>])
                           /\ koutput.at[i] = Whole(args.cube.data.at[<<k, i[2], i[3]>>])
                           /\ ~kmask.at[i]
                           /\ ~out.cube.data.mask[i]

C3_Witness ==
    /\ op = "to_level"
    /\ out.status = "returned"
    /\ out.kernel[1].interp_flag = 1
    /\ ColumnAt(1, 1) = Decreasing
    /\ Asked.shape[1] = 2
    /\ AskedAt(<<1, 1, 1>>) = 2
    /\ AskedAt(<<2, 1, 1>>) = 4
    /\ out.cube.data.data[<<1, 1, 1>>] = Whole(args.cube.data.at[<<3, 1, 1>>])
    /\ out.cube.data.data[<<2, 1, 1>>] = Whole(args.cube.data.at[<<2, 1, 1>>])

\* C4: at a grid point whose input column is degenerate every output index
\* is masked, whatever the target, and the call does not fail.
C4_DegenerateMasked ==
    /\ (WellFormed /\ \E y \in 1..args.cube.shape[2], x \in 1..args.cube.shape[3] :
                        SeqMin(ColumnAt(y, x)) = SeqMax(ColumnAt(y, x)))
            => out.status = "returned"
    /\ (op = "to_level" /\ out.status = "returned")
        => LET kmask == ValidityMask
           IN \A i \in OutIdx :
                SeqMin(ColumnAt(i[2], i[3])) = SeqMax(ColumnAt(i[2], i[3]))
                    => (kmask.at[i] /\ out.cube.data.mask[i])

C4_Witness ==
    /\ op = "to_level"
    /\ out.status = "returned"
    /\ ColumnAt(1, 1) = Degenerate
    /\ AskedAt(<<1, 1, 1>>) = 4
    /\ out.cube.data.mask[<<1, 1, 1>>]

C6_SingleTarget ==
    (Called("to_level") /\ Len(args.kwargs) > 1)
        => /\ out.status = "raised"
           /\ out.error = "Can only specify a single vertical co-ordinate"
           /\ out.lookups = 0
           /\ out.kernel = <<>>
           /\ out.cube = NoCube

C6_Witness ==
    /\ op = "to_level"
    /\ Len(args.kwargs) = 2
    /\ HasCoord(args.cube, args.kwargs[1].name)
    /\ args.order = 0
    /\ out.status = "raised"

\* C7: the flag handed to the kernel is 1 exactly when the requested name
\* contains 'pressure', and 0 otherwise.
C7_FlagFromName ==
    (Called("to_level") /\ out.kernel # <<>>)
        => /\ out.kernel[1].interp_flag \in {0, 1}
           /\ out.kernel[1].interp_flag = 1 <=> Contains(pressure, args.kwargs[1].name)
           /\ args.kwargs[1].name = air_pressure => out.kernel[1].interp_flag = 1
           /\ args.kwargs[1].name \in {altitude, Pressure} => out.kernel[1].interp_flag = 0

C7_Witness ==
    /\ op = "to_level"
    /\ out.status = "returned"
    /\ args.kwargs[1].name = air_pressure
    /\ out.kernel[1].interp_flag = 1

\* C8: a flat list of M levels reaches the kernel as an array (M, Y, X)
\* holding the m-th level at every (y, x), and the returned data and mask
\* have that shape.
C8_ListBroadcast ==
    (Called("to_level") /\ out.kernel # <<>> /\ NDim(Asked) = 1)
        => LET t == out.kernel[1].coord_out
               want == <<Asked.shape[1], args.cube.shape[2], args.cube.shape[3]>>
           IN /\ t.shape = want
              /\ \A i \in Idx(want) : t.at[i] = Asked.at[<<i[1]>>]
              /\ out.status = "returned"
                    => /\ OutputField.shape = want
                       /\ ValidityMask.shape = want
                       /\ out.cube.data.shape = want
                       /\ DOMAIN out.cube.data.data = Idx(want)
                       /\ DOMAIN out.cube.data.mask = Idx(want)

C8_Witness ==
    /\ op = "to_level"
    /\ out.status = "returned"
    /\ NDim(Asked) = 1
    /\ Asked.shape[1] = 2
    /\ Asked.at[<<1>>] # Asked.at[<<2>>]
    /\ args.cube.shape[2] = 1
    /\ args.cube.shape[3] = 2
    /\ out.kernel[1].coord_out.shape = <<2, 1, 2>>

\* ----------------------------------------------------------- cross_section

\* a < b for fractions.
Less(a, b) == a.n * b.d < b.n * a.d

\* np.linspace(start, stop, num), num >= 1: start alone when num is 1.
Linspace(start, stop, num) ==
    [i \in 1..num |->
        IF num = 1 THEN Whole(start)
        ELSE Frac(start * (num - 1) + (i - 1) * (stop - start), num - 1)]

\* The number of levels of a 3D cube of the cross-section model.
SectionLevels == {1, 2}

\* cube.interpolate([(xcoord, xpoints), (ycoord, ypoints)], ...): the box of
\* every ypoints[j] with every xpoints[i].  An element is the place the field
\* was sampled at: (z, y, x) for a cube (z, y, x), (y, x) with z = 0 for a
\* cube (y, x).  The x and y coordinates lie along the last two dimensions.
InterpolateBox(ndim, xpoints, ypoints) ==
    LET n == Len(xpoints)
        m == Len(ypoints)
        shape == IF ndim = 3 THEN <<Cardinality(SectionLevels), m, n>> ELSE <<m, n>>
    IN [shape |-> shape,
        at |-> [i \in Idx(shape) |->
                  IF ndim = 3
                  THEN [z |-> i[1], y |-> ypoints[i[2]], x |-> xpoints[i[3]]]
                  ELSE [z |-> 0, y |-> ypoints[i[1]], x |-> xpoints[i[2]]]],
        ycoord |-> ypoints,
        xcoord |-> xpoints]

\* Mutant: newcube[:, i, 0], the x index forgotten.
TakeFirstColumn(newcube, i) ==
    IF NDim(newcube) >= 3
    THEN [data |-> [z \in 1..newcube.shape[1] |-> newcube.at[<<z, i, 1>>]],
          y |-> newcube.ycoord[i], x |-> newcube.xcoord[1]]
    ELSE [data |-> <<newcube.at[<<i, 1>>]>>,
          y |-> newcube.ycoord[i], x |-> newcube.xcoord[1]]

\* newcube[:, i, i], and newcube[i, i] when that is an IndexError (a 2D
\* cube): the data left, with the y and x values as scalar coordinates.
TakeDiagonal(newcube, i) ==
    IF NDim(newcube) >= 3
    THEN [data |-> [z \in 1..newcube.shape[1] |-> newcube.at[<<z, i, i>>]],
          y |-> newcube.ycoord[i], x |-> newcube.xcoord[i]]
    ELSE [data |-> <<newcube.at[<<i, i>>]>>,
          y |-> newcube.ycoord[i], x |-> newcube.xcoord[i]]

\* The cube list of the loop over range(npoints).
DiagonalList(newcube, npoints) == [i \in 1..npoints |-> TakeDiagonal(newcube, i)]

\* CubeList.merge(): the cubes become one along a new leading dimension, in
\* ascending order of the scalar coordinate that varies (y before x), whatever
\* the order of the list; identical cubes cannot be merged.
MergeOrder(a, b) ==
    \/ Less(a.y, b.y)
    \/ a.y = b.y /\ Less(a.x, b.x)

MergeFails(cubelist) ==
    \E i, j \in DOMAIN cubelist : i # j /\ cubelist[i] = cubelist[j]

Merge(cubelist) == SortSeq(cubelist, MergeOrder)

\* cross_section(cube, xs, xf, ys, yf, npoints), from its first line to its
\* return.
CrossSectionRun(ndim, xs, xf, ys, yf, npoints) ==
    LET xpoints == Linspace(xs, xf, npoints)
        ypoints == Linspace(ys, yf, npoints)
        newcube == InterpolateBox(ndim, xpoints, ypoints)
        newcubelist == DiagonalList(newcube, npoints)
    IN IF MergeFails(newcubelist)
       THEN [status |-> "raised", error |-> "DuplicateDataError",
             box |-> newcube, list |-> newcubelist, cube |-> NoCube]
       ELSE [status |-> "returned", error |-> "",
             box |-> newcube, list |-> newcubelist, cube |-> Merge(newcubelist)]

\* The calls of cross_section, on a cube (y, x) or (z, y, x).
InitCrossSection ==
    /\ op = "cross_section"
    /\ args \in [ndim : {2, 3}, xs : 0..MaxXY, xf : 0..MaxXY,
                  ys : 0..MaxXY, yf : 0..MaxXY, npoints : 1..MaxPoints]
    /\ out = Pending

\* A call of cross_section.
CrossSection ==
    /\ op = "cross_section"
    /\ out = Pending
    /\ out' = CrossSectionRun(args.ndim, args.xs, args.xf, args.ys, args.yf,
                              args.npoints)
    /\ UNCHANGED <<op, args>>

SpecCrossSection == InitCrossSection /\ [][CrossSection]_vars

\* The i-th point of the line from (xs, ys) to (xf, yf).
LinePoint(i) ==
    [x |-> Linspace(args.xs, args.xf, args.npoints)[i],
     y |-> Linspace(args.ys, args.yf, args.npoints)[i]]

\* The data of the box at the index pair (j, i) of its y and x dimensions.
BoxEntry(j, i) ==
    IF args.ndim = 3
    THEN [z \in SectionLevels |-> out.box.at[<<z, j, i>>]]
    ELSE <<out.box.at[<<j, i>>]>>

\* The box is the full outer product of the y and the x points.
FullBox ==
    /\ out.box.shape = IF args.ndim = 3
                       THEN <<Cardinality(SectionLevels), args.npoints, args.npoints>>
                       ELSE <<args.npoints, args.npoints>>
    /\ \A j, i \in 1..args.npoints :
        \A k \in DOMAIN BoxEntry(j, i) :
            /\ BoxEntry(j, i)[k].y = LinePoint(j).y
            /\ BoxEntry(j, i)[k].x = LinePoint(i).x

\* C9 as stated: the result holds npoints positions, the i-th being the box
\* entry (i, i) at (xpoints[i], ypoints[i]), from the start to the end point.
C9_StartToEnd ==
    (op = "cross_section" /\ out.status = "returned")
        => /\ FullBox
           /\ Len(out.cube) = args.npoints
           /\ \A i \in 1..args.npoints :
                /\ out.cube[i].x = LinePoint(i).x
                /\ out.cube[i].y = LinePoint(i).y
                /\ out.cube[i].data = BoxEntry(i, i)

\* C9 amended: the cubes handed to merge are the npoints diagonal entries
\* (i, i) of the full box, in order from start to end, and nothing else; the
\* merged result holds exactly these entries, in ascending order of y (of x
\* when y is constant), which is the order from start to end unless that
\* coordinate decreases along the line; a line of several points whose start
\* and end coincide cannot be merged and nothing is returned.
C9_DiagonalMerged ==
    Called("cross_section")
        => /\ FullBox
           /\ Len(out.list) = args.npoints
           /\ \A i \in 1..args.npoints :
                /\ out.list[i].x = LinePoint(i).x
                /\ out.list[i].y = LinePoint(i).y
                /\ out.list[i].data = BoxEntry(i, i)
           /\ out.status = "raised"
                <=> (args.npoints > 1 /\ args.xs = args.xf /\ args.ys = args.yf)
           /\ out.status = "returned"
                => /\ Len(out.cube) = args.npoints
                   /\ {out.cube[i] : i \in 1..args.npoints}
                        = {out.list[i] : i \in 1..args.npoints}
                   /\ \A i \in 1..(args.npoints - 1) :
                        MergeOrder(out.cube[i], out.cube[i + 1])
                   /\ (args.ys < args.yf \/ (args.ys = args.yf /\ args.xs <= args.xf))
                        => out.cube = out.list
                   /\ args.ys > args.yf
                        => \A i \in 1..args.npoints :
                            out.cube[i] = out.list[args.npoints + 1 - i]

C9_Witness ==
    /\ op = "cross_section"
    /\ out.status = "returned"
    /\ args.ndim = 3
    /\ args.npoints = 3
    /\ args.xs < args.xf
    /\ args.ys > args.yf
    /\ out.cube[1] = out.list[3]
    /\ out.cube[1].data = BoxEntry(3, 3)

\* ---------------------------------------------------------------- remap_3d

\* An auxiliary coordinate: its name, its units, the dimensions it spans
\* (none: a scalar coordinate) and the cube its points come from.
AuxCoord(name, units, dims, from) ==
    [name |-> name, units |-> units, dims |-> dims, from |-> from]

\* The auxiliary coordinates a cube (z, y, x) may carry.
AuxCoordsOf(from) ==
    {AuxCoord("time", "hours since 1970-01-01", {}, from),
     AuxCoord("forecast_reference_time", "hours since 1970-01-01", {}, from),
     AuxCoord("forecast_period", "hours", {}, from),
     AuxCoord("surface_altitude", "m", {"y", "x"}, from),
     AuxCoord("level_height", "m", {"z"}, from)}

\* The two cubes of a call: the cube to re-map and the target.
RemapCube(from, name, units, aux) ==
    [from |-> from, name |-> name, units |-> units,
     dim_coords |-> {[name |-> "model_level_number", axis |-> "z", from |-> from],
                     [name |-> "grid_latitude", axis |-> "y", from |-> from],
                     [name |-> "grid_longitude", axis |-> "x", from |-> from]},
     aux_coords |-> aux]

SourceCubes ==
    {RemapCube("source", "air_temperature", "K", aux) : aux \in SUBSET AuxCoordsOf("source")}

TargetCubes ==
    {RemapCube("target", "x_wind", "m s-1", aux) : aux \in SUBSET AuxCoordsOf("target")}

\* Mutant: every coordinate measured in hours is taken for a time coordinate.
GuessCoordAxisHours(coord) ==
    IF coord.units \in {"hours since 1970-01-01", "hours"} THEN "T" ELSE "None"

\* iris.util.guess_coord_axis(coord) for these coordinates: 'T' for units
\* that are a time reference, no axis for the rest.
GuessCoordAxis(coord) ==
    IF coord.units = "hours since 1970-01-01" THEN "T" ELSE "None"

\* cube.regrid(target, Linear()): the data on the target's horizontal grid;
\* the auxiliary coordinates that span y or x do not survive.
Regrid(cube, target) ==
    [cube EXCEPT
        !.dim_coords = {c \in cube.dim_coords : c.axis = "z"}
                       \cup {c \in target.dim_coords : c.axis \in {"y", "x"}},
        !.aux_coords = {c \in cube.aux_coords : c.dims \cap {"y", "x"} = {}}]

\* cube.interpolate finds the coordinate named z.name() on the cube.
CanInterpolateZ(cube, z) ==
    \E c \in cube.aux_coords \cup cube.dim_coords : c.name = z.name

\* cube.interpolate([(z.name(), z.points)], Linear()): the data at the levels
\* of the coordinate z of the target.
InterpolateZ(cube, z) ==
    [cube EXCEPT
        !.dim_coords = {c \in cube.dim_coords : c.axis # "z"}
                       \cup {[name |-> z.name, axis |-> "z", from |-> "target"]}]

\* Mutant: the target's time coordinates are left on the new cube.
RemoveTimeCoordsForgotten(aux_coords) == aux_coords

\* The first loop: the coordinates of newcube.aux_coords left after every one
\* whose axis is 'T' has been removed.
RemoveTimeCoords(aux_coords) == {c \in aux_coords : GuessCoordAxis(c) # "T"}

\* The second loop: the coordinates of cube.aux_coords whose axis is 'T'.
TimeCoords(aux_coords) == {c \in aux_coords : GuessCoordAxis(c) = "T"}

\* add_aux_coord refuses a coordinate the cube has already (same name and
\* units) and, with no dimensions given, one that is not a scalar.
CanAdd(coords, coord) ==
    /\ coord.dims = {}
    /\ \A c \in coords : ~(c.name = coord.name /\ c.units = coord.units)

\* The coordinate of the target the vertical interpolation is done on.
HasVertCoord(target, vert_coord) ==
    \/ vert_coord = "None"
    \/ \E c \in target.aux_coords \cup target.dim_coords : c.name = vert_coord

VertCoord(target, vert_coord) ==
    IF vert_coord = "None"
    THEN CHOOSE c \in target.dim_coords : c.axis = "z"
    ELSE CHOOSE c \in target.aux_coords \cup target.dim_coords : c.name = vert_coord

\* remap_3d(cube, target, vert_coord), from its first line to its return.
Remap3dRun(source, target, vert_coord) ==
    IF ~HasVertCoord(target, vert_coord)
    THEN [status |-> "raised", error |-> "CoordinateNotFoundError",
          regridded |-> NoCube, cube |-> NoCube]
    ELSE
      LET z == VertCoord(target, vert_coord)
          cube == InterpolateZ(Regrid(source, target), z)
          kept == RemoveTimeCoords(target.aux_coords)
          added == TimeCoords(cube.aux_coords)
      IN IF ~CanInterpolateZ(Regrid(source, target), z)
         THEN [status |-> "raised", error |-> "CoordinateNotFoundError",
               regridded |-> NoCube, cube |-> NoCube]
         ELSE IF \E c \in added : ~CanAdd(kept \cup (added \ {c}), c)
         THEN [status |-> "raised", error |-> "ValueError",
               regridded |-> cube, cube |-> NoCube]
         ELSE [status |-> "returned", error |-> "",
               regridded |-> cube,
               cube |-> [from |-> "target",
                         data |-> [from |-> cube.from, z |-> z.name],
                         name |-> cube.name,
                         units |-> cube.units,
                         dim_coords |-> target.dim_coords,
                         aux_coords |-> kept \cup added]]

\* The calls of remap_3d.
InitRemap3d ==
    /\ op = "remap_3d"
    /\ args \in [cube : SourceCubes, target : TargetCubes,
                  vert_coord : {"None", "level_height", "model_level_number"}]
    /\ out = Pending

\* A call of remap_3d.
Remap3d ==
    /\ op = "remap_3d"
    /\ out = Pending
    /\ out' = Remap3dRun(args.cube, args.target, args.vert_coord)
    /\ UNCHANGED <<op, args>>

SpecRemap3d == InitRemap3d /\ [][Remap3d]_vars

\* The time-related coordinates, by name.
IsTimeCoord(c) == c.name \in {"time", "forecast_reference_time"}

\* C10: the returned cube has the target's coordinates and shape and the
\* source's interpolated data, name and units; its time-related auxiliary
\* coordinates are those of the regridded source cube and none of the
\* target's; its other auxiliary coordinates are those of the target and
\* none of the source's.
C10_TimeFromSource ==
    (op = "remap_3d" /\ out.status = "returned")
        => /\ out.cube.dim_coords = args.target.dim_coords
           /\ out.cube.data.from = "source"
           /\ out.cube.name = args.cube.name
           /\ out.cube.units = args.cube.units
           /\ {c \in out.cube.aux_coords : IsTimeCoord(c)}
                = {c \in out.regridded.aux_coords : IsTimeCoord(c)}
           /\ {c \in out.cube.aux_coords : IsTimeCoord(c)}
                = {c \in args.cube.aux_coords : IsTimeCoord(c)}
           /\ \A c \in out.cube.aux_coords : IsTimeCoord(c) => c.from = "source"
           /\ {c \in out.cube.aux_coords : ~IsTimeCoord(c)}
                = {c \in args.target.aux_coords : ~IsTimeCoord(c)}
           /\ \A c \in out.cube.aux_coords : ~IsTimeCoord(c) => c.from = "target"

C10_Witness ==
    /\ op = "remap_3d"
    /\ out.status = "returned"
    /\ \E c \in args.target.aux_coords : c.name = "time"
    /\ \E c \in args.target.aux_coords : c.name = "forecast_reference_time"
    /\ \E c \in args.target.aux_coords : c.name = "forecast_period"
    /\ \E c \in args.cube.aux_coords : c.name = "time"
    /\ \E c \in args.cube.aux_coords : c.name = "forecast_period"
    /\ \E c \in args.cube.aux_coords : c.name = "surface_altitude"
    /\ args.vert_coord = "level_height"
    /\ ~\E c \in args.cube.aux_coords : c.name = "forecast_reference_time"
    /\ {c.name : c \in {d \in out.cube.aux_coords : d.from = "source"}} = {"time"}

\* The specification of the whole module: one call of one of its functions.
Init == InitToLevel \/ InitCrossSection \/ InitRemap3d

Next == ToLevel \/ CrossSection \/ Remap3d

Spec == Init /\ [][Next]_vars

=============================================================================
